---- MODULE Spec2Model ----
(***************************************************************************)
(* linear-reminder: the webhook intake (Payload::from_data and             *)
(* webhook_linear) and the reminder worker task of src/main.rs, over the   *)
(* `issues` table.  The table lives in PostgreSQL; transactions run at     *)
(* READ COMMITTED: a statement sees the rows committed when it starts,     *)
(* a writer waits for the in-flight transaction that holds the row, and    *)
(* SELECT ... FOR UPDATE SKIP LOCKED passes over rows it cannot lock.      *)
(* Time is counted in whole seconds.                                       *)
(***************************************************************************)
EXTENDS Integers, FiniteSets, Sequences, TLC

\* ---------------------------------------------------------------- bounds
StartTime == 100       \* the clock when the service starts (seconds)
MaxTicks == 2          \* how far the clock advances in the model
MaxFaults == 1         \* how many Store operations may fail in one run
TimeToRemind == 0      \* AppConfig.time_to_remind, in seconds

\* ------------------------------------------------------ program constants
ReplayWindow == 60     \* seconds, Payload::from_data
MsPerSec == 1000       \* webhookTimestamp is sent as epoch milliseconds

Ids == {"a", "b"}
Handlers == {"h1", "h2"}
Workers == {"w1", "w2"}
SigningKey == "key"
TargetStatus == "In Progress"
StateNames == {TargetStatus, "Done"}

NoIssue == [id |-> "none", updated_at |-> 0, reminded |-> FALSE]
NoPayload == [id |-> "none", state |-> "none"]
NoWrite == [op |-> "none", id |-> "none", updated_at |-> 0]
NoResponse == [request |-> "none", status |-> 0]

VARIABLES
    now,        \* Utc::now(), seconds
    issues,     \* the committed rows of the `issues` table
    hpc,        \* where each request is: "idle", "found", "written"
    payload,    \* data.id and data.state.name of the Payload each request carries
    pending,    \* the uncommitted write of each request's transaction
    aborted,    \* the request's transaction has had a failed statement
    response,   \* the last decision of the endpoint: the kind of request and the status
    wpc,        \* where each worker is: "tick" (waiting), "claimed" (a row locked)
    issue_db,   \* the row each worker's open transaction has locked
    sent,       \* per id: successful Notifier calls since the row was inserted
    lost,       \* per id: state updates that did not land after a successful call
    retry,      \* per id: the last Notifier call for the row failed
    faults      \* Store failures so far

vars == <<now, issues, hpc, payload, pending, aborted, response, wpc, issue_db, sent, lost, retry, faults>>

handlerVars == <<hpc, payload, pending, aborted, response>>
workerVars == <<wpc, issue_db>>
historyVars == <<sent, lost, retry>>

\* ------------------------------------------------------------ signature
\* HMAC-SHA256 of the body under the secret, taken as collision free: the
\* digest determines both the secret and the body.
HmacSha256(secret, body) == <<secret, body>>

\* hex::encode is one to one on digests.
HexEncode(digest) == <<"hex", digest>>

\* a check of the key of the signature alone, whatever body was signed
signed_with_secret(signature, body, secret) ==
    \E digest \in {signature[2]} :
        signature = HexEncode(digest) /\ digest = HmacSha256(secret, digest[2])

is_valid_signature(signature, body, secret) ==
    HexEncode(HmacSha256(secret, body)) = signature

\* ----------------------------------------------------------- timestamps
\* DateTime::from_timestamp(secs, 0): the instant `secs` seconds after the
\* epoch.  Every value of the model is inside chrono's range, so the None
\* branch is not taken.
FromTimestamp(secs) == secs

\* now.signed_duration_since(t).num_seconds()
SecondsSince(t) == now - t

\* The instant the sender stamped on the event: webhookTimestamp is epoch
\* milliseconds.
EmittedAt(webhook_timestamp) == webhook_timestamp \div MsPerSec

\* ------------------------------------------------------------- requests
WebhookAges == {ReplayWindow, ReplayWindow + 1}

\* the JSON bodies that deserialize into a Payload, as sent at the current
\* time; webhookTimestamp 0 is an event stamped at the epoch
Payloads ==
    [id : Ids,
     state : StateNames,
     created_at : {now},
     webhook_timestamp : {(now - age) * MsPerSec : age \in WebhookAges} \cup {0}]

Unparsable == [id |-> "none", state |-> "none", created_at |-> 0, webhook_timestamp |-> 0]

Bodies == [json : {TRUE}, p : Payloads] \cup {[json |-> FALSE, p |-> Unparsable]}

\* the bodies of events emitted just inside the replay window
FreshBodies ==
    {b \in Bodies : b.json => b.p.webhook_timestamp = (now - ReplayWindow) * MsPerSec}

\* the same event reporting the other state
Tampered(body) ==
    [body EXCEPT !.p.state = IF @ = TargetStatus THEN "Done" ELSE TargetStatus]

Sign(secret, body) == HexEncode(HmacSha256(secret, body))

\* a request as the sender makes it: one Linear-Signature header with the
\* signature of the body under the signing key, and a JSON content type
Signed(body) ==
    [keys |-> <<Sign(SigningKey, body)>>, content_type |-> "application/json", body |-> body]

\* the same request with no signature, a signature under another secret, the
\* signature of another body, two signatures, or another content type
Deviant(body) ==
    {[Signed(body) EXCEPT !.keys = k] :
        k \in {<<>>, <<Sign("other", body)>>, <<Sign(SigningKey, Tampered(body))>>,
               <<Sign(SigningKey, body), Sign(SigningKey, body)>>}}
    \cup {[Signed(body) EXCEPT !.content_type = "text/plain"]}

Requests == {Signed(b) : b \in Bodies} \cup UNION {Deviant(b) : b \in FreshBodies}

\* the request carries exactly the signature of its body under the signing key
Authentic(req) ==
    /\ Len(req.keys) = 1
    /\ req.keys[1] = HexEncode(HmacSha256(SigningKey, req.body))

\* the event was emitted more than ReplayWindow seconds ago
Stale(req) == now - EmittedAt(req.body.p.webhook_timestamp) > ReplayWindow

\* Payload::from_data: the status it answers with, 0 when it hands the
\* Payload to the handler.
from_data(req) ==
    IF Len(req.keys) # 1 THEN 400
    ELSE IF req.content_type # "application/json" THEN 415
    ELSE IF ~is_valid_signature(req.keys[1], req.body, SigningKey) THEN 400
    ELSE IF ~req.body.json THEN 400
    ELSE IF SecondsSince(FromTimestamp(req.body.p.webhook_timestamp)) > ReplayWindow THEN 400
    ELSE 0

\* what was true of the request, for the record of the decision
Kind(req) ==
    IF ~Authentic(req) THEN "unsigned"
    ELSE IF ~req.body.json THEN "malformed"
    ELSE IF Stale(req) THEN "stale"
    ELSE "fresh"

\* ------------------------------------------------------- the issues table
Row(id, updated_at, reminded) == [id |-> id, updated_at |-> updated_at, reminded |-> reminded]

RowsOf(tbl, id) == {r \in tbl : r.id = id}

\* the unique key of the table: a row conflicts with a row of the same id
PrimaryKey(r) == r.id

\* rows whose lock is held by a worker's open transaction (FOR UPDATE)
Claimed(id) == \E w \in Workers : issue_db[w].id = id

\* rows another request's transaction has deleted and not yet committed
DeleteHeld(id, h) ==
    \E g \in Handlers \ {h} : pending[g].op = "delete" /\ pending[g].id = id

\* an INSERT that does not wait for the open transactions
NoWait(id, h) == FALSE

\* rows another request's transaction has written and not yet committed
WriteHeld(id, h) ==
    \E g \in Handlers \ {h} : pending[g].op # "none" /\ pending[g].id = id

\* rows a SELECT ... FOR UPDATE cannot lock at once
Locked(id) ==
    \/ Claimed(id)
    \/ \E g \in Handlers : pending[g].op = "delete" /\ pending[g].id = id

\* an INSERT that writes the row whether or not the id is already there
InsertRegardless(tbl, row) ==
    [op |-> "insert", id |-> row.id, updated_at |-> row.updated_at]

\* INSERT ... ON CONFLICT DO NOTHING: the write the statement leaves pending
InsertOnConflictDoNothing(tbl, row) ==
    IF \E r \in tbl : PrimaryKey(r) = PrimaryKey(row)
    THEN NoWrite
    ELSE [op |-> "insert", id |-> row.id, updated_at |-> row.updated_at]

\* issue_in_db: SELECT COUNT(*) ... WHERE id = $1 is exactly one
issue_in_db(tbl, id) == Cardinality(RowsOf(tbl, id)) = 1

\* DELETE FROM issues WHERE id = $1: the write the statement leaves pending
DeleteWhereId(tbl, id) ==
    IF RowsOf(tbl, id) # {}
    THEN [op |-> "delete", id |-> id, updated_at |-> 0]
    ELSE NoWrite

\* the commit of a DELETE without its WHERE clause
CommittedDeleteAll(tbl, write) ==
    CASE write.op = "insert" -> tbl \cup {Row(write.id, write.updated_at, FALSE)}
      [] write.op = "delete" -> {}
      [] OTHER -> tbl

\* the table after a request's transaction commits
Committed(tbl, write) ==
    CASE write.op = "insert" -> tbl \cup {Row(write.id, write.updated_at, FALSE)}
      [] write.op = "delete" -> tbl \ RowsOf(tbl, write.id)
      [] OTHER -> tbl

\* the SELECT without SKIP LOCKED, taking the oldest row whoever holds it
dequeue_locked(tbl) ==
    LET open == {r \in tbl : r.reminded = FALSE}
    IN  {r \in open : \A q \in open : r.updated_at <= q.updated_at}

\* the SELECT without WHERE reminded = FALSE
dequeue_any(tbl) ==
    LET free == {r \in tbl : ~Locked(r.id)}
    IN  {r \in free : \A q \in free : r.updated_at <= q.updated_at}

\* the SELECT without ORDER BY
dequeue_unordered(tbl) == {r \in tbl : r.reminded = FALSE /\ ~Locked(r.id)}

\* the SELECT with ORDER BY updated_at DESC
dequeue_newest(tbl) ==
    LET free == {r \in tbl : r.reminded = FALSE /\ ~Locked(r.id)}
    IN  {r \in free : \A q \in free : r.updated_at >= q.updated_at}

\* dequeue_issue: the rows the SELECT may return (none: it returns None).
\* WHERE reminded = FALSE ORDER BY updated_at ASC FOR UPDATE SKIP LOCKED LIMIT 1
dequeue_issue(tbl) ==
    LET free == {r \in tbl : r.reminded = FALSE /\ ~Locked(r.id)}
    IN  {r \in free : \A q \in free : r.updated_at <= q.updated_at}

\* the age test with >= for >
DueAtThreshold(issue) == now - issue.updated_at >= TimeToRemind

\* the worker's test that the reminder is due
Due(issue) == now - issue.updated_at > TimeToRemind

\* an UPDATE that matches no row
SetNothing(tbl, id) == tbl

\* the UPDATE without its WHERE clause
SetRemindedEverywhere(tbl, id) == {[r EXCEPT !.reminded = TRUE] : r \in tbl}

\* UPDATE issues SET reminded = TRUE WHERE id = $1
SetReminded(tbl, id) ==
    {IF r.id = id THEN [r EXCEPT !.reminded = TRUE] ELSE r : r \in tbl}

\* ---------------------------------------------------------------- Init
Init ==
    /\ now = StartTime
    /\ issues = {}
    /\ hpc = [h \in Handlers |-> "idle"]
    /\ payload = [h \in Handlers |-> NoPayload]
    /\ pending = [h \in Handlers |-> NoWrite]
    /\ aborted = [h \in Handlers |-> FALSE]
    /\ response = NoResponse
    /\ wpc = [w \in Workers |-> "tick"]
    /\ issue_db = [w \in Workers |-> NoIssue]
    /\ sent = [i \in Ids |-> 0]
    /\ lost = [i \in Ids |-> 0]
    /\ retry = [i \in Ids |-> FALSE]
    /\ faults = 0

\* a Store operation may fail
MayFail == faults < MaxFaults

\* the request is over: its transaction is gone and the status is answered
Respond(h, status) ==
    /\ hpc' = [hpc EXCEPT ![h] = "idle"]
    /\ payload' = [payload EXCEPT ![h] = NoPayload]
    /\ pending' = [pending EXCEPT ![h] = NoWrite]
    /\ aborted' = [aborted EXCEPT ![h] = FALSE]
    /\ response' = [request |-> "handled", status |-> status]

\* ------------------------------------------------------------- intake
\* pool.begin() touches no row, so a request's arrival, the opening of its
\* transaction and its first statement are one step.
Accepted(h, req) ==
    /\ hpc[h] = "idle"
    /\ from_data(req) = 0

Take(h, req, pc) ==
    /\ hpc' = [hpc EXCEPT ![h] = pc]
    /\ payload' = [payload EXCEPT ![h] =
            [id |-> req.body.p.id, state |-> req.body.p.state]]
    /\ response' = [request |-> Kind(req), status |-> 0]

\* Payload::from_data answers with an error status: webhook_linear is not run
Reject(h, req) ==
    /\ hpc[h] = "idle"
    /\ from_data(req) # 0
    /\ response' = [request |-> Kind(req), status |-> from_data(req)]
    /\ UNCHANGED <<now, issues, hpc, payload, pending, aborted, wpc, issue_db, historyVars, faults>>

\* state.pool.begin().await? fails
BeginFails(h, req) ==
    /\ Accepted(h, req)
    /\ MayFail
    /\ faults' = faults + 1
    /\ response' = [request |-> "handled", status |-> 500]
    /\ UNCHANGED <<now, issues, hpc, payload, pending, aborted, wpc, issue_db, historyVars>>

\* the state is the target status: INSERT ... ON CONFLICT DO NOTHING, which
\* waits for a transaction that has written the same id and is still open
Insert(h, req, ok) ==
    /\ Accepted(h, req)
    /\ req.body.p.state = TargetStatus
    /\ IF ok THEN
            /\ ~WriteHeld(req.body.p.id, h)
            /\ Take(h, req, "written")
            /\ pending' = [pending EXCEPT ![h] =
                    InsertOnConflictDoNothing(issues,
                        Row(req.body.p.id, req.body.p.created_at, FALSE))]
            /\ UNCHANGED <<aborted, faults>>
       ELSE
            /\ MayFail
            /\ faults' = faults + 1
            /\ response' = [request |-> "handled", status |-> 500]
            /\ UNCHANGED <<hpc, payload, pending, aborted>>
    /\ UNCHANGED <<now, issues, wpc, issue_db, historyVars>>

\* any other state: `if let Ok(true) = issue_in_db(..)`; a failed query is
\* not Ok(true), so the handler goes on to commit
IssueInDb(h, req, ok) ==
    /\ Accepted(h, req)
    /\ req.body.p.state # TargetStatus
    /\ IF ok THEN
            /\ Take(h, req, IF issue_in_db(issues, req.body.p.id) THEN "found" ELSE "written")
            /\ UNCHANGED <<aborted, faults>>
       ELSE
            /\ MayFail
            /\ faults' = faults + 1
            /\ Take(h, req, "written")
            /\ aborted' = [aborted EXCEPT ![h] = TRUE]
    /\ UNCHANGED <<now, issues, pending, wpc, issue_db, historyVars>>

\* a DELETE that does not wait for the worker that holds the row
DeleteAtOnce(h, ok) ==
    /\ hpc[h] = "found"
    /\ IF ok THEN
            /\ ~DeleteHeld(payload[h].id, h)
            /\ hpc' = [hpc EXCEPT ![h] = "written"]
            /\ pending' = [pending EXCEPT ![h] = DeleteWhereId(issues, payload[h].id)]
            /\ UNCHANGED <<payload, aborted, response, faults>>
       ELSE
            /\ MayFail
            /\ faults' = faults + 1
            /\ Respond(h, 500)
    /\ UNCHANGED <<now, issues, wpc, issue_db, historyVars>>

\* DELETE FROM issues WHERE id = $1; it waits for whoever holds the row
Delete(h, ok) ==
    /\ hpc[h] = "found"
    /\ IF ok THEN
            /\ ~Claimed(payload[h].id)
            /\ ~DeleteHeld(payload[h].id, h)
            /\ hpc' = [hpc EXCEPT ![h] = "written"]
            /\ pending' = [pending EXCEPT ![h] = DeleteWhereId(issues, payload[h].id)]
            /\ UNCHANGED <<payload, aborted, response, faults>>
       ELSE
            /\ MayFail
            /\ faults' = faults + 1
            /\ Respond(h, 500)
    /\ UNCHANGED <<now, issues, wpc, issue_db, historyVars>>

\* transaction.commit().await?; Ok(())
Commit(h, ok) ==
    /\ hpc[h] = "written"
    /\ IF ok THEN
            /\ issues' = Committed(issues, pending[h])
            /\ sent' = IF pending[h].op = "delete"
                       THEN [sent EXCEPT ![pending[h].id] = 0] ELSE sent
            /\ lost' = IF pending[h].op = "delete"
                       THEN [lost EXCEPT ![pending[h].id] = 0] ELSE lost
            /\ retry' = IF pending[h].op = "delete"
                        THEN [retry EXCEPT ![pending[h].id] = FALSE] ELSE retry
            /\ Respond(h, 200)
            /\ UNCHANGED faults
       ELSE
            /\ MayFail
            /\ faults' = faults + 1
            /\ Respond(h, 500)
            /\ UNCHANGED <<issues, historyVars>>
    /\ UNCHANGED <<now, wpc, issue_db>>

\* ------------------------------------------------------------- worker
\* the worker goes on to the next tick with its transaction still open
KeepLock(w) ==
    /\ wpc' = [wpc EXCEPT ![w] = "tick"]
    /\ UNCHANGED issue_db

\* the row is let go and the pass goes on to the next row at once, without
\* waiting for the tick
ClaimAgain(w) ==
    IF dequeue_issue(issues) = {}
    THEN /\ wpc' = [wpc EXCEPT ![w] = "tick"]
         /\ issue_db' = [issue_db EXCEPT ![w] = NoIssue]
    ELSE /\ UNCHANGED wpc
         /\ \E r \in dequeue_issue(issues) : issue_db' = [issue_db EXCEPT ![w] = r]

\* the transaction is dropped or finished: the row lock is released and the
\* worker waits for the next tick
Release(w) ==
    /\ wpc' = [wpc EXCEPT ![w] = "tick"]
    /\ issue_db' = [issue_db EXCEPT ![w] = NoIssue]

\* interval.tick(), then dequeue_issue
Dequeue(w, ok) ==
    /\ wpc[w] = "tick"
    /\ IF ok THEN
            /\ \/ /\ dequeue_issue(issues) = {}
                  /\ UNCHANGED <<wpc, issue_db>>
               \/ \E r \in dequeue_issue(issues) :
                  /\ wpc' = [wpc EXCEPT ![w] = "claimed"]
                  /\ issue_db' = [issue_db EXCEPT ![w] = r]
            /\ UNCHANGED faults
       ELSE
            /\ MayFail
            /\ faults' = faults + 1
            /\ UNCHANGED <<wpc, issue_db>>
    /\ UNCHANGED <<now, issues, hpc, payload, pending, aborted, response, historyVars>>

MaxSent == MaxFaults + 2

\* The rest of the loop body, with the row locked throughout: the age test;
\* for a row that is due the POST of the comment, which succeeds or fails (a
\* network error or a status that is not a success); after a success the
\* UPDATE that sets reminded and the commit, if one row was affected.  On
\* every other path the transaction is dropped, which rolls it back.
Remind(w, posted, updated, committed) ==
    /\ wpc[w] = "claimed"
    /\ LET id == issue_db[w].id
           rows_affected == Cardinality(RowsOf(issues, id))
       IN  IF ~Due(issue_db[w]) THEN
                UNCHANGED <<issues, sent, lost, retry, faults>>
           ELSE IF ~posted THEN
                /\ retry' = [retry EXCEPT ![id] = TRUE]
                /\ UNCHANGED <<issues, sent, lost, faults>>
           ELSE
                /\ sent[id] < MaxSent
                /\ sent' = [sent EXCEPT ![id] = @ + 1]
                /\ retry' = [retry EXCEPT ![id] = FALSE]
                /\ IF updated /\ committed /\ rows_affected = 1 THEN
                        /\ issues' = SetReminded(issues, id)
                        /\ UNCHANGED <<lost, faults>>
                   ELSE IF updated /\ rows_affected # 1 THEN
                        /\ lost' = [lost EXCEPT ![id] = @ + 1]
                        /\ UNCHANGED <<issues, faults>>
                   ELSE
                        /\ MayFail
                        /\ faults' = faults + 1
                        /\ lost' = [lost EXCEPT ![id] = @ + 1]
                        /\ UNCHANGED issues
    /\ Release(w)
    /\ UNCHANGED <<now, hpc, payload, pending, aborted, response>>

\* ---------------------------------------------------------------- time
Advance ==
    /\ now < StartTime + MaxTicks
    /\ now' = now + 1
    /\ UNCHANGED <<issues, hpc, payload, pending, aborted, response, wpc, issue_db, historyVars, faults>>

\* Requests are served one at a time, about any issue, beside the workers.
Serial == {"h1"}

Next ==
    \/ \E h \in Serial, req \in Requests : Reject(h, req)
    \/ \E h \in Serial, req \in Requests : BeginFails(h, req)
    \/ \E h \in Serial, req \in Requests, ok \in BOOLEAN : Insert(h, req, ok)
    \/ \E h \in Serial, req \in Requests, ok \in BOOLEAN : IssueInDb(h, req, ok)
    \/ \E h \in Serial, ok \in BOOLEAN : Delete(h, ok)
    \/ \E h \in Serial, ok \in BOOLEAN : Commit(h, ok)
    \/ \E w \in Workers, ok \in BOOLEAN : Dequeue(w, ok)
    \/ \E w \in Workers, p \in BOOLEAN, u \in BOOLEAN, c \in BOOLEAN : Remind(w, p, u, c)
    \/ Advance

Spec == Init /\ [][Next]_vars

\* Two requests are served at once, both about the same issue.
About(id) == {req \in Requests : req.body.p.id \in {id, "none"}}

ConcurrentNext ==
    \/ \E h \in Handlers, req \in About("a") : Reject(h, req)
    \/ \E h \in Handlers, req \in About("a") : BeginFails(h, req)
    \/ \E h \in Handlers, req \in About("a"), ok \in BOOLEAN : Insert(h, req, ok)
    \/ \E h \in Handlers, req \in About("a"), ok \in BOOLEAN : IssueInDb(h, req, ok)
    \/ \E h \in Handlers, ok \in BOOLEAN : Delete(h, ok)
    \/ \E h \in Handlers, ok \in BOOLEAN : Commit(h, ok)
    \/ \E w \in Workers, ok \in BOOLEAN : Dequeue(w, ok)
    \/ \E w \in Workers, p \in BOOLEAN, u \in BOOLEAN, c \in BOOLEAN : Remind(w, p, u, c)
    \/ Advance

ConcurrentSpec == Init /\ [][ConcurrentNext]_vars

\* One process: the one worker task that rocket() spawns, beside the requests
\* it serves.
Single == {"w1"}

\* Issues for which the Notifier answers every call with a success; for the
\* others a call may fail every time.
Deliverable == {"b"}

\* the outcome of the POST for the row the worker holds
Notifier(w, posted) == issue_db[w].id \in Deliverable => posted

LiveNext ==
    \/ \E h \in Serial, req \in Requests : Reject(h, req)
    \/ \E h \in Serial, req \in Requests : BeginFails(h, req)
    \/ \E h \in Serial, req \in Requests, ok \in BOOLEAN : Insert(h, req, ok)
    \/ \E h \in Serial, req \in Requests, ok \in BOOLEAN : IssueInDb(h, req, ok)
    \/ \E h \in Serial, ok \in BOOLEAN : Delete(h, ok)
    \/ \E h \in Serial, ok \in BOOLEAN : Commit(h, ok)
    \/ \E w \in Single, ok \in BOOLEAN : Dequeue(w, ok)
    \/ \E w \in Single, p \in BOOLEAN, u \in BOOLEAN, c \in BOOLEAN :
            Notifier(w, p) /\ Remind(w, p, u, c)
    \/ Advance

\* The interval keeps ticking and the loop body runs to its end; a request
\* that has begun runs to its answer; the clock goes on.  A DELETE that waits
\* for a claimed row gets the row when the claim is released, before the next
\* tick.  Requests arrive or not, and no outcome of a call or of a Store
\* operation is promised.
Fairness ==
    /\ \A w \in Single :
        /\ WF_vars(\E ok \in BOOLEAN : Dequeue(w, ok))
        /\ WF_vars(\E p \in BOOLEAN, u \in BOOLEAN, c \in BOOLEAN :
                        Notifier(w, p) /\ Remind(w, p, u, c))
    /\ \A h \in Serial :
        /\ SF_vars(\E ok \in BOOLEAN : Delete(h, ok))
        /\ WF_vars(\E ok \in BOOLEAN : Commit(h, ok))
    /\ WF_vars(Advance)

LiveSpec == Init /\ [][LiveNext]_vars /\ Fairness

TypeOK ==
    /\ now \in StartTime .. StartTime + MaxTicks
    /\ \A r \in issues : r.id \in Ids /\ r.reminded \in BOOLEAN
    /\ hpc \in [Handlers -> {"idle", "found", "written"}]
    /\ \A h \in Handlers : pending[h].op \in {"none", "insert", "delete"}
    /\ aborted \in [Handlers -> BOOLEAN]
    /\ wpc \in [Workers -> {"tick", "claimed"}]
    /\ faults \in 0 .. MaxFaults

\* ------------------------------------------------------------ properties
\* a request for the target status has just been answered
EligibleAnswered(h) ==
    /\ hpc[h] = "written"
    /\ payload[h].state = TargetStatus
    /\ hpc'[h] = "idle"

\* C1 (idempotent intake): the table never holds two rows of one id; when a
\* request reporting the target status is answered and the id already has a
\* row, that row is left as it was (same updated_at, same reminded); when the
\* id had no row and the insert is committed, the id has exactly the row of
\* that first event, unreminded.
IdempotentIntake ==
    [][/\ \A r \in issues', q \in issues' : r.id = q.id => r = q
       /\ \A h \in Handlers :
            EligibleAnswered(h) =>
                LET id == payload[h].id IN
                /\ RowsOf(issues, id) # {} => RowsOf(issues', id) = RowsOf(issues, id)
                /\ (RowsOf(issues, id) = {} /\ pending[h].op = "insert"
                        /\ response'.status = 200)
                    => RowsOf(issues', id) = {Row(id, pending[h].updated_at, FALSE)}
                /\ (RowsOf(issues, id) = {} /\ ~(pending[h].op = "insert"
                        /\ response'.status = 200))
                    => RowsOf(issues', id) = {}]_vars

\* a repeated event for the target status found the row of an earlier one,
\* which carries another time or is already reminded
RepeatedEligibleEvent ==
    \E h \in Handlers :
        /\ hpc[h] = "written"
        /\ payload[h].state = TargetStatus
        /\ pending[h] = NoWrite
        /\ \E r \in issues : r.id = payload[h].id /\ (r.updated_at < now \/ r.reminded)

\* a request for any other status has just been answered with success
NonEligibleCommitted(h) ==
    /\ hpc[h] = "written"
    /\ payload[h].state # TargetStatus
    /\ hpc'[h] = "idle"
    /\ response'.status = 200

\* C2 (round-trip eligibility): once a request reporting a status other than
\* the target status has been committed and answered with success, the table
\* holds no row of its id.
RoundTripEligibility ==
    [][\A h \in Handlers :
        NonEligibleCommitted(h) => RowsOf(issues', payload[h].id) = {}]_vars

\* a worker has just finished with the row it had claimed
Finished(w) == wpc[w] = "claimed" /\ wpc'[w] = "tick"

\* C3 (no premature reminder): a Notifier call is made for a row (and succeeds
\* or fails, or the row is marked reminded) only when, at the age test, now
\* minus the row's updated_at is strictly greater than time_to_remind; a
\* claimed row whose age is at most the threshold is let go with the table
\* and the record of calls as they were.
NoPrematureReminder ==
    [][\A w \in Workers :
        Finished(w) =>
            LET r == issue_db[w] IN
            /\ sent'[r.id] # sent[r.id] => now - r.updated_at > TimeToRemind
            /\ (retry'[r.id] # retry[r.id] \/ issues' # issues)
                    => now - r.updated_at > TimeToRemind
            /\ now - r.updated_at <= TimeToRemind
                    => /\ issues' = issues
                       /\ sent' = sent /\ lost' = lost /\ retry' = retry
                       /\ issue_db'[w] = NoIssue]_vars

\* a row is claimed at the threshold exactly (not due) after another row got
\* its reminder
ClaimedNotDue ==
    \E w \in Workers :
        /\ wpc[w] = "claimed"
        /\ now - issue_db[w].updated_at = TimeToRemind
        /\ \E i \in Ids : sent[i] > 0

\* C4 (no double reminder): every row a worker holds a claim on is a row of
\* the table with reminded = FALSE; a row with reminded = TRUE is never
\* claimed, so no Notifier call is made for it.
NoDoubleReminder ==
    \A w \in Workers :
        wpc[w] = "claimed" =>
            /\ issue_db[w] \in issues
            /\ issue_db[w].reminded = FALSE

\* a claim returned a row although an older row exists that is reminded
ClaimPassedReminded ==
    \E w \in Workers, r \in issues :
        /\ wpc[w] = "claimed"
        /\ r.reminded
        /\ r.updated_at < issue_db[w].updated_at

\* C5 (at most once outside failure windows): over the life of a row, the
\* successful Notifier calls are at most one more than the state updates
\* that did not land after a successful call.
AtMostOnceDelivery ==
    \A i \in Ids : sent[i] <= 1 + lost[i]

\* a second successful call for a row, after the update of the first was lost
DuplicateAfterLostCommit ==
    \E i \in Ids : sent[i] = 2 /\ lost[i] = 1

\* a worker has just let go of a due row after a Notifier call that failed
FailedCall(w) ==
    /\ Finished(w)
    /\ now - issue_db[w].updated_at > TimeToRemind
    /\ sent'[issue_db[w].id] = sent[issue_db[w].id]

\* no transaction holds the row of this id
Unlocked(id) ==
    /\ \A v \in Workers : issue_db[v].id # id
    /\ \A h \in Handlers : ~(pending[h].op = "delete" /\ pending[h].id = id)

Judged(kind) == response' # response /\ response'.request = kind

\* C7 (authentication rejection): a request whose Linear-Signature header is
\* missing, doubled, or not the hex HMAC-SHA256 of its body under the signing
\* key is answered with a client error and changes nothing: no row, no
\* transaction, no claim, no Notifier call.
AuthenticationRejection ==
    [][Judged("unsigned") =>
        /\ response'.status \in 400 .. 499
        /\ UNCHANGED <<now, issues, hpc, payload, pending, aborted, wpc, issue_db,
                       sent, lost, retry, faults>>]_vars

\* a request without a valid signature was turned away while a row was tracked
UnsignedRejected ==
    /\ response.request = "unsigned"
    /\ response.status = 400
    /\ issues # {}

\* C8 (replay rejection): a correctly signed, well-formed event emitted more
\* than 60 seconds before the receiver's clock is answered with a client
\* error.
ReplayRejection ==
    response.request = "stale" => response.status \in 400 .. 499

\* a worker has just made a claim
Claims(w) == wpc[w] = "tick" /\ wpc'[w] = "claimed"

\* C9 (mutual exclusion, claims that do not wait): no row is held by the open
\* claims of two workers at once; a worker at its tick can always make its
\* attempt; the row an attempt returns is unreminded and was held by no
\* other transaction, and while another worker holds the oldest row the
\* attempt returns a different row.
ExclusiveClaims ==
    /\ [](\A w \in Workers, v \in Workers :
            (w # v /\ wpc[w] = "claimed" /\ wpc[v] = "claimed")
                => issue_db[w].id # issue_db[v].id)
    /\ [](\A w \in Workers : wpc[w] = "tick" => ENABLED Dequeue(w, TRUE))
    /\ [][\A w \in Workers :
            Claims(w) => \E r \in issues :
                /\ issue_db'[w] = r
                /\ r.reminded = FALSE
                /\ Unlocked(r.id)]_vars

\* two workers hold claims on different rows at the same time
TwoClaimsAtOnce ==
    /\ wpc["w1"] = "claimed" /\ wpc["w2"] = "claimed"
    /\ issue_db["w1"].id # issue_db["w2"].id
    /\ issue_db["w1"].updated_at < issue_db["w2"].updated_at

\* the id has a row
Tracked(id) == RowsOf(issues, id) # {}

\* the id's row is unreminded and past the threshold
Overdue(id) == \E r \in RowsOf(issues, id) : r.reminded = FALSE /\ Due(r)

\* the id's row has reminded = TRUE
Reminded(id) == \E r \in RowsOf(issues, id) : r.reminded = TRUE

\* C10 (eventual delivery): while the worker keeps ticking and the Notifier
\* answers every call for an issue with a success, an unreminded row of that
\* issue that is past its threshold is eventually marked reminded or removed
\* by intake, whatever the outcome of the calls for the other issues.
EventualDelivery ==
    \A i \in Deliverable : Overdue(i) ~> (Reminded(i) \/ ~Tracked(i))

\* a request has just been answered after its transaction was begun
Answered(h) == hpc[h] # "idle" /\ hpc'[h] = "idle"

\* C11 (intake Store failure): a step in which a Store operation fails leaves
\* the table as it was; a request one of whose Store operations failed (the
\* begin, the presence check, the INSERT, the DELETE or the commit) is
\* answered with the internal server error, never with a success, and its
\* answer leaves the table as it was.
IntakeStoreFailure ==
    [][/\ faults' # faults => issues' = issues
       /\ (faults' # faults /\ response' # response /\ hpc' = hpc)
            => response'.status = 500
       /\ \A h \in Handlers :
            (Answered(h) /\ (aborted[h] \/ faults' # faults))
                => /\ response'.status = 500
                   /\ issues' = issues]_vars

\* the request judged in this step has the content type of the route (any
\* other is passed on with 415 before its signature is looked at)
JudgedJson(kind) == Judged(kind) /\ response'.status # 415

\* C12 (intake outcome mapping): a request that fails the signature check is
\* answered Unauthorized (401); a correctly signed request whose body does not
\* parse, or whose event is stale, is answered BadRequest (400); a request
\* that passes these checks and whose Store operations succeed is answered
\* with a success (2xx), whatever its state and whether or not its issue is
\* tracked.
OutcomeMapping ==
    [][/\ JudgedJson("unsigned") => response'.status = 401
       /\ JudgedJson("malformed") => response'.status = 400
       /\ JudgedJson("stale") => response'.status = 400
       /\ \A h \in Handlers :
            (Answered(h) /\ response.request = "fresh"
                    /\ ~aborted[h] /\ faults' = faults)
                => response'.status \in 200 .. 299]_vars

\* the committed rows with reminded = FALSE that no transaction holds
Claimable == {r \in issues : r.reminded = FALSE /\ Unlocked(r.id)}

\* dequeue_issue returns a row to this worker
ReturnsRow(w) == Dequeue(w, TRUE) /\ wpc'[w] = "claimed"

\* C13 (result of dequeue_issue): the one row a claim returns is a committed
\* row with reminded = FALSE that no other transaction holds, and no such
\* row has an earlier updated_at (the time of the event that created it);
\* the call can return a row exactly when such a row exists, and returns
\* None, leaving the worker without a row, when none does.
ClaimOldestDue ==
    /\ [][\A w \in Workers :
            Claims(w) =>
                /\ issue_db'[w] \in Claimable
                /\ \A q \in Claimable : issue_db'[w].updated_at <= q.updated_at]_vars
    /\ [](\A w \in Workers :
            wpc[w] = "tick" => (ENABLED ReturnsRow(w) <=> Claimable # {}))
    /\ [](\A w \in Workers : wpc[w] = "tick" => issue_db[w] = NoIssue)

\* a claim returned the older of two unreminded rows; the younger one is free
OlderOfTwoClaimed ==
    \E w \in Workers, q \in Claimable :
        /\ wpc[w] = "claimed"
        /\ issue_db[w].updated_at < q.updated_at

\* where an issue stands in a table
StateOf(tbl, id) ==
    IF RowsOf(tbl, id) = {} THEN "Untracked"
    ELSE IF \E r \in RowsOf(tbl, id) : r.reminded THEN "Reminded"
    ELSE "Unreminded"

\* a request about this issue has just been committed and answered 200
AcceptedEvent(id, eligible) ==
    \E h \in Handlers :
        /\ Answered(h)
        /\ payload[h].id = id
        /\ (payload[h].state = TargetStatus) = eligible
        /\ response'.status = 200

\* a worker has just committed its claim on this issue after a Notifier call
\* for it that succeeded within the same claim
DeliveredAndCommitted(id) ==
    \E w \in Workers :
        /\ Finished(w)
        /\ issue_db[w].id = id
        /\ sent'[id] = sent[id] + 1

\* C14 (per-item state machine): an issue goes from Untracked to Unreminded
\* only by an accepted event for the target status, from Unreminded to
\* Reminded only by the commit of a worker's claim in which the Notifier
\* call for that issue succeeded, and from Unreminded or Reminded to
\* Untracked only by an accepted event for another status; no other move
\* happens, in particular none from Reminded to Unreminded; a row with
\* reminded = TRUE has had a successful call.
ItemStateMachine ==
    /\ [][\A i \in Ids :
            StateOf(issues, i) # StateOf(issues', i) =>
                \/ /\ StateOf(issues, i) = "Untracked"
                   /\ StateOf(issues', i) = "Unreminded"
                   /\ AcceptedEvent(i, TRUE)
                \/ /\ StateOf(issues, i) = "Unreminded"
                   /\ StateOf(issues', i) = "Reminded"
                   /\ DeliveredAndCommitted(i)
                \/ /\ StateOf(issues, i) \in {"Unreminded", "Reminded"}
                   /\ StateOf(issues', i) = "Untracked"
                   /\ AcceptedEvent(i, FALSE)]_vars
    /\ [](\A i \in Ids : Reminded(i) => sent[i] > 0)

\* an event for another status is about to remove a row that is reminded
RemindedRowBeingRemoved ==
    \E h \in Handlers : pending[h].op = "delete" /\ Reminded(pending[h].id)

\* C15 (claim finalization): a worker that has claimed a row can always run
\* the rest of its loop pass, and when the pass ends, on whichever path, the
\* worker's transaction is gone and no worker holds the row; the
\* transaction was either committed, with the row's reminded set and
\* nothing else changed, or rolled back, with the table as it was; a worker
\* waiting for its tick holds no row.
ClaimFinalization ==
    /\ [][\A w \in Workers : \A r \in {issue_db[w]} :
            Finished(w) =>
                /\ issue_db'[w] = NoIssue
                /\ \A v \in Workers : issue_db'[v].id # r.id
                /\ \/ issues' = issues
                   \/ /\ issues' # issues
                      /\ issues' = (issues \ {r}) \cup {[r EXCEPT !.reminded = TRUE]}]_vars
    /\ [](\A w \in Workers :
            /\ wpc[w] = "tick" => issue_db[w] = NoIssue
            /\ wpc[w] = "claimed" =>
                ENABLED (\E p \in BOOLEAN, u \in BOOLEAN, c \in BOOLEAN : Remind(w, p, u, c)))

\* a claim was let go after a successful call whose update did not land: the
\* row is still unreminded and nobody holds it
ReleasedAfterLostUpdate ==
    \E r \in issues :
        /\ lost[r.id] = 1
        /\ r.reminded = FALSE
        /\ Unlocked(r.id)

\* this worker's loop has moved in this step
WorkerStep(w) == wpc'[w] # wpc[w] \/ issue_db'[w] # issue_db[w]

\* C16 (one claim per tick): a worker takes a row only from its wait for the
\* tick, holding none; the pass on a claimed row makes at most one Notifier
\* call, for that row alone, and ends with the worker back at its wait for
\* the tick without a row, whether the row was not yet due, the call failed
\* or the reminder was sent: it does not claim again within the tick.
OneClaimPerTick ==
    [][\A w \in Workers : \A r \in {issue_db[w]} :
        /\ (WorkerStep(w) /\ issue_db'[w] # NoIssue)
            => wpc[w] = "tick" /\ r = NoIssue
        /\ (WorkerStep(w) /\ wpc[w] = "claimed")
            => /\ wpc'[w] = "tick"
               /\ issue_db'[w] = NoIssue
               /\ sent'[r.id] <= sent[r.id] + 1
               /\ \A i \in Ids \ {r.id} :
                    sent'[i] = sent[i] /\ retry'[i] = retry[i]]_vars

\* every worker waits for its tick after a call for one row failed, while
\* another unreminded row is due and free
WaitingBesideDueRow ==
    /\ \A w \in Workers : wpc[w] = "tick"
    /\ \E r \in issues, q \in Claimable :
        /\ retry[r.id]
        /\ q.id # r.id
        /\ Due(q)

\* the table after a request's transaction has run alone on it
SerialEffect(tbl, id, state, created_at) ==
    IF state = TargetStatus
    THEN IF RowsOf(tbl, id) # {} THEN tbl ELSE tbl \cup {Row(id, created_at, FALSE)}
    ELSE IF Cardinality(RowsOf(tbl, id)) = 1 THEN tbl \ RowsOf(tbl, id) ELSE tbl

\* a statement of this request's transaction has just found nothing to write
NothingToWrite(h) ==
    /\ hpc[h] # "written"
    /\ hpc'[h] = "written"
    /\ pending'[h] = NoWrite
    /\ ~aborted'[h]

\* C17 (per-row serializability of intake): every intake transaction takes
\* effect at one moment of its life as if it ran alone on the committed
\* table of that moment: one that writes, at its commit; one that finds
\* nothing to write, at the statement that finds so, and its commit changes
\* nothing; a commit that fails, or that follows a failed statement, changes
\* nothing.  So the committed rows of
\* an id are those of the transactions run one after another in the order
\* of these moments.  A claim returns committed rows only, never the row of
\* an INSERT that is still open.
IntakeSerializable ==
    [][/\ \A h \in Handlers :
            /\ NothingToWrite(h) =>
                SerialEffect(issues, payload'[h].id, payload'[h].state, now) = issues
            /\ (Answered(h) /\ hpc[h] = "written") =>
                IF response'.status = 200 /\ pending[h] # NoWrite
                THEN issues' = SerialEffect(issues, payload[h].id, payload[h].state,
                                            pending[h].updated_at)
                ELSE issues' = issues
       /\ \A w \in Workers :
            Claims(w) =>
                /\ issue_db'[w] \in issues
                /\ \A h \in Handlers :
                    ~(pending[h].op = "insert" /\ pending[h].id = issue_db'[w].id)]_vars

\* an INSERT of an id is open while a removal of the same id, which saw no
\* row, is about to commit
RemovalPassedOpenInsert ==
    \E h \in Handlers, g \in Handlers :
        /\ pending[h].op = "insert"
        /\ hpc[g] = "written"
        /\ payload[g].id = pending[h].id
        /\ payload[g].state # TargetStatus
        /\ pending[g] = NoWrite
        /\ ~aborted[g]

\* the removal of this request has found its row and not yet run its DELETE
RemovalWaits(h) == hpc[h] = "found"

\* C18 (claimed row stability): while a worker holds a claim on a row, the
\* row stays in the table as it was claimed and no request's transaction
\* has it deleted: a removal of that id cannot run its DELETE and, once no
\* transaction holds the row, can, and then deletes it; so the worker's
\* UPDATE affects exactly one row, and no pass ends by the roll back for
\* another count: an update lost after a successful call is always a Store
\* failure.
ClaimedRowStable ==
    /\ [](\A w \in Workers :
            wpc[w] = "claimed" =>
                /\ issue_db[w] \in issues
                /\ Cardinality(RowsOf(issues, issue_db[w].id)) = 1
                /\ \A h \in Handlers :
                    /\ ~(pending[h].op = "delete" /\ pending[h].id = issue_db[w].id)
                    /\ (RemovalWaits(h) /\ payload[h].id = issue_db[w].id)
                            => ~ENABLED Delete(h, TRUE))
    /\ [](\A h \in Handlers :
            (RemovalWaits(h) /\ Unlocked(payload[h].id)) => ENABLED Delete(h, TRUE))
    /\ [][/\ \A i \in Ids : lost'[i] # lost[i] => (lost'[i] = 0 \/ faults' = faults + 1)
          /\ \A h \in Handlers :
                (RemovalWaits(h) /\ hpc'[h] = "written" /\ RowsOf(issues, payload[h].id) # {})
                    => pending'[h].op = "delete"]_vars

\* a removal has found the row that a worker holds and waits for it
RemovalBehindClaim ==
    \E h \in Handlers, w \in Workers :
        /\ RemovalWaits(h)
        /\ wpc[w] = "claimed"
        /\ issue_db[w].id = payload[h].id

\* C19 (oldest-first never hides a due item): when a claim returns a row that
\* is not yet due, no committed unreminded row that no transaction holds is
\* due at that moment; and when the worker lets that row go without a
\* Notifier call, no unreminded row that the order of the claim placed
\* behind it (one not older than it) is due: the order has kept no due row
\* from this tick.
OldestFirstHidesNothing ==
    /\ [][\A w \in Workers : \A r \in {issue_db'[w]} :
            (Claims(w) /\ ~Due(r)) => \A q \in Claimable : ~Due(q)]_vars
    /\ [][\A w \in Workers : \A r \in {issue_db[w]} :
            (Finished(w) /\ ~Due(r)) =>
                /\ sent' = sent /\ retry' = retry
                /\ \A q \in issues :
                    (q.reminded = FALSE /\ q.updated_at >= r.updated_at) => ~Due(q)]_vars

\* a row that is not yet due is claimed while another unreminded row, as
\* young, is free
NotDueClaimedBesideFreeRow ==
    \E w \in Workers, q \in Claimable :
        /\ wpc[w] = "claimed"
        /\ ~Due(issue_db[w])
        /\ q.updated_at = issue_db[w].updated_at

\* C20 (frame conditions): the answer to a request about one id leaves the
\* rows of every other id as they were, and no other step of a request
\* changes the table; a worker's pass changes the table only when it
\* commits after a successful call, and then only the reminded flag of the
\* row it holds (its id, its updated_at and every other row stay); a pass
\* that ends otherwise (row not yet due, call failed, update or commit
\* lost), a claim, a failed claim and the clock leave the table as it was.
FrameConditions ==
    [][/\ \A h \in Handlers :
            Answered(h) =>
                \A i \in Ids \ {payload[h].id} : RowsOf(issues', i) = RowsOf(issues, i)
       /\ (\A h \in Handlers : ~Answered(h)) /\ (\A w \in Workers : ~Finished(w))
            => issues' = issues
       /\ \A w \in Workers : \A r \in {issue_db[w]} :
            Finished(w) =>
                /\ issues' \in {issues, (issues \ {r}) \cup {[r EXCEPT !.reminded = TRUE]}}
                /\ (~Due(r) \/ sent'[r.id] = sent[r.id] \/ lost'[r.id] # lost[r.id])
                        => issues' = issues]_vars

\* a removal of one id is about to commit beside a reminded row of another
RemovalBesideOtherRow ==
    \E h \in Handlers, r \in issues :
        /\ pending[h].op = "delete"
        /\ r.id # pending[h].id
        /\ r.reminded

====
